---------------------------- MODULE Spec2Model ----------------------------
(***************************************************************************)
(* A model of the Notes API of src/solution/index.js: an Express server    *)
(* keeping a collection of notes in one JSON file (notes.json).            *)
(*                                                                         *)
(* Every request handler is an async function: it runs synchronously up to *)
(* an `await` of a file operation, and other handlers may run before it    *)
(* resumes.  The model has one action per such segment of a handler.       *)
(*                                                                         *)
(* Strings are sequences of one-character strings, so that trim,           *)
(* toLowerCase, includes and parseInt are computed character by character. *)
(***************************************************************************)
EXTENDS Integers, Sequences, FiniteSets, TLC

VARIABLES
    notesFile,  \* the file NOTES_FILE: [exists, truncated, notes]
    h,          \* per handler slot: the request, its locals, its response
    nextId,     \* the next identifier uuidv4() hands out
    now,        \* the clock read by new Date()
    last,       \* the request answered most recently, with its response
    gone        \* ids whose DELETE succeeded while no other POST/PUT/DELETE ran

vars == <<notesFile, h, nextId, now, last, gone>>

(***************************************************************************)
(* Bounds of the model.                                                    *)
(***************************************************************************)
NumProcs == 2
MaxNotes == 2
MaxTime == 2
MaxListLen == 7

Procs == 1..NumProcs

(***************************************************************************)
(* JavaScript values of a request body or of a query string.               *)
(***************************************************************************)
Undefined == [t |-> "undefined", s |-> <<>>, n |-> 0]
Null == [t |-> "null", s |-> <<>>, n |-> 0]
Object == [t |-> "object", s |-> <<>>, n |-> 0]
Str(s) == [t |-> "string", s |-> s, n |-> 0]
Number(n) == [t |-> "number", s |-> <<>>, n |-> n]

\* typeof v
TypeOf(v) == IF v.t = "null" THEN "object" ELSE v.t

\* !v
Falsy(v) ==
    \/ v.t \in {"undefined", "null"}
    \/ v.t = "string" /\ v.s = <<>>
    \/ v.t = "number" /\ v.n = 0

(***************************************************************************)
(* JavaScript numbers as far as the pagination needs them: an integer, NaN *)
(* or an infinity.                                                         *)
(***************************************************************************)
Int_(k) == [k |-> "int", v |-> k]
NaN == [k |-> "nan", v |-> 0]
Infinity(sign) == [k |-> "inf", v |-> sign]

\* a - b
JsSub(a, b) ==
    IF a.k = "int" /\ b.k = "int" THEN Int_(a.v - b.v) ELSE NaN

\* a + b
JsAdd(a, b) ==
    IF a.k = "int" /\ b.k = "int" THEN Int_(a.v + b.v) ELSE NaN

\* a * b
JsMul(a, b) ==
    IF a.k = "int" /\ b.k = "int" THEN Int_(a.v * b.v) ELSE NaN

\* Math.ceil(n / d) for an integer n >= 0 (an array length) and a number d
CeilDiv(n, d) ==
    IF d.k # "int" THEN NaN
    ELSE IF d.v = 0 THEN (IF n = 0 THEN NaN ELSE Infinity(1))
    ELSE IF d.v > 0 THEN Int_(-((-n) \div d.v))
    ELSE Int_(-(n \div (-d.v)))

(***************************************************************************)
(* Strings.                                                                *)
(***************************************************************************)
WhiteSpace == {" ", "\t", "\n"}

RECURSIVE TrimStart(_)
TrimStart(s) ==
    IF s # <<>> /\ Head(s) \in WhiteSpace THEN TrimStart(Tail(s)) ELSE s

RECURSIVE TrimEnd(_)
TrimEnd(s) ==
    IF s # <<>> /\ s[Len(s)] \in WhiteSpace
    THEN TrimEnd(SubSeq(s, 1, Len(s) - 1))
    ELSE s

\* String.prototype.trim
Trim(s) == TrimEnd(TrimStart(s))

UpperCase ==
    <<"A", "B", "C", "D", "E", "F", "G", "H", "I", "J", "K", "L", "M",
      "N", "O", "P", "Q", "R", "S", "T", "U", "V", "W", "X", "Y", "Z">>

LowerCase ==
    <<"a", "b", "c", "d", "e", "f", "g", "h", "i", "j", "k", "l", "m",
      "n", "o", "p", "q", "r", "s", "t", "u", "v", "w", "x", "y", "z">>

\* toLowerCase of one character
LowerChar(c) ==
    IF \E i \in DOMAIN UpperCase : UpperCase[i] = c
    THEN LowerCase[CHOOSE i \in DOMAIN UpperCase : UpperCase[i] = c]
    ELSE c

\* String.prototype.toLowerCase
ToLowerCase(s) == [i \in 1..Len(s) |-> LowerChar(s[i])]

\* String.prototype.includes: t occurs in s at some offset k or later
RECURSIVE IncludesFrom(_, _, _)
IncludesFrom(s, t, k) ==
    IF k + Len(t) > Len(s) THEN FALSE
    ELSE IF SubSeq(s, k + 1, k + Len(t)) = t THEN TRUE
    ELSE IncludesFrom(s, t, k + 1)

Includes(s, t) == IncludesFrom(s, t, 0)

\* the digits of parseInt, in the order of their values
DigitChars ==
    <<"0", "1", "2", "3", "4", "5", "6", "7", "8", "9">> \o LowerCase

\* whether c is a digit in the given radix
IsDigit(c, radix) ==
    \E d \in 1..radix : DigitChars[d] = LowerChar(c)

DigitValue(c) ==
    (CHOOSE d \in DOMAIN DigitChars : DigitChars[d] = LowerChar(c)) - 1

\* the value of the longest prefix of digits of s, given the value acc of
\* the digits already read
RECURSIVE DigitsValue(_, _, _)
DigitsValue(s, acc, radix) ==
    IF s # <<>> /\ IsDigit(Head(s), radix)
    THEN DigitsValue(Tail(s), radix * acc + DigitValue(Head(s)), radix)
    ELSE acc

\* parseInt(string) without a radix: leading white space is skipped, a sign
\* is read, a "0x" prefix selects radix 16, then the longest prefix of
\* digits is read; NaN when there is none.
ParseIntString(s) ==
    LET t == TrimStart(s)
        neg == t # <<>> /\ Head(t) = "-"
        u == IF t # <<>> /\ Head(t) \in {"-", "+"} THEN Tail(t) ELSE t
        hex == Len(u) >= 2 /\ u[1] = "0" /\ u[2] \in {"x", "X"}
        radix == IF hex THEN 16 ELSE 10
        d == IF hex THEN Tail(Tail(u)) ELSE u
    IN  IF d = <<>> \/ ~IsDigit(Head(d), radix) THEN NaN
        ELSE Int_((IF neg THEN -1 ELSE 1) * DigitsValue(d, 0, radix))

\* parseInt(v) for a query value after the destructuring default
parseInt(v) ==
    IF v.t = "number" THEN Int_(v.n)
    ELSE IF v.t = "string" THEN ParseIntString(v.s)
    ELSE NaN

\* ToIntegerOrInfinity clamped to an array of length len, as
\* Array.prototype.slice does with each of its bounds
SliceBound(x, len) ==
    IF x.k = "nan" THEN 0
    ELSE IF x.k = "inf" THEN (IF x.v < 0 THEN 0 ELSE len)
    ELSE IF x.v < 0 THEN (IF len + x.v < 0 THEN 0 ELSE len + x.v)
    ELSE IF x.v > len THEN len ELSE x.v

\* Array.prototype.slice(start, end)
Slice(arr, start, end) ==
    SubSeq(arr, SliceBound(start, Len(arr)) + 1, SliceBound(end, Len(arr)))

(***************************************************************************)
(* Notes, requests and responses.                                          *)
(***************************************************************************)
Note(id, title, content, createdAt, deleted) ==
    [id |-> id, title |-> title, content |-> content,
     createdAt |-> createdAt, deleted |-> deleted]

\* the value of a local that holds no note
NoNote == Note(0, <<>>, <<>>, 0, FALSE)

Query(page, limit, search, includeDeleted) ==
    [page |-> page, limit |-> limit, search |-> search,
     includeDeleted |-> includeDeleted]

NoQuery == Query(Undefined, Undefined, Undefined, Undefined)

NoPagination ==
    [page |-> NaN, limit |-> NaN, total |-> 0, totalPages |-> NaN]

\* a response: the status and the JSON body's members
Response(status, note, notes, pagination, details) ==
    [status |-> status, note |-> note, notes |-> notes,
     pagination |-> pagination, details |-> details]

NoResponse == Response(0, NoNote, <<>>, NoPagination, <<>>)

\* res.status(404).json({ error: 'Note not found' })
NotFound == Response(404, NoNote, <<>>, NoPagination, <<>>)

\* res.status(500).json({ error: 'Internal server error' })
InternalError == Response(500, NoNote, <<>>, NoPagination, <<>>)

\* res.json({ message: 'Note deleted successfully' })
Deleted == Response(200, NoNote, <<>>, NoPagination, <<>>)

TitleRequired == "Title is required and must be a non-empty string"
TitleTooLong == "Title must be 100 characters or less"
ContentRequired == "Content is required and must be a non-empty string"

MaxTitleLength == 100

\* validateNoteTitle without its test of title.trim()
validateNoteTitle_NoTrimTest(title) ==
    IF Falsy(title) \/ TypeOf(title) # "string"
    THEN <<TitleRequired>>
    ELSE IF Len(title.s) > MaxTitleLength THEN <<TitleTooLong>>
    ELSE <<>>

\* validateNoteTitle without its test of title.length
validateNoteTitle_NoLengthTest(title) ==
    IF Falsy(title) \/ TypeOf(title) # "string" \/ Trim(title.s) = <<>>
    THEN <<TitleRequired>>
    ELSE <<>>

validateNoteTitle(title) ==
    IF Falsy(title) \/ TypeOf(title) # "string" \/ Trim(title.s) = <<>>
    THEN <<TitleRequired>>
    ELSE IF Len(title.s) > MaxTitleLength THEN <<TitleTooLong>>
    ELSE <<>>

validateNoteContent(content) ==
    IF Falsy(content) \/ TypeOf(content) # "string" \/ Trim(content.s) = <<>>
    THEN <<ContentRequired>>
    ELSE <<>>

validateNote(title, content) ==
    validateNoteTitle(title) \o validateNoteContent(content)

\* notes.findIndex(n => n.id === id), counted from 1; 0 when there is none
findIndex(notes, id) ==
    IF \E i \in DOMAIN notes : notes[i].id = id
    THEN CHOOSE i \in DOMAIN notes :
            /\ notes[i].id = id
            /\ \A j \in 1..(i - 1) : notes[j].id # id
    ELSE 0

\* the deleted filter of GET /notes
filterDeleted(notes, includeDeleted) ==
    IF includeDeleted # Str(<<"t", "r", "u", "e">>)
    THEN SelectSeq(notes, LAMBDA note : ~note.deleted)
    ELSE notes

\* searchMatches looking at the title only
searchMatches_TitleOnly(note, searchTerm) ==
    Includes(ToLowerCase(note.title), searchTerm)

\* one note against the lowercased search term
searchMatches(note, searchTerm) ==
    \/ Includes(ToLowerCase(note.title), searchTerm)
    \/ Includes(ToLowerCase(note.content), searchTerm)

\* the search filter of GET /notes
filterSearch(notes, search) ==
    IF ~Falsy(search)
    THEN SelectSeq(notes,
            LAMBDA note : searchMatches(note, ToLowerCase(search.s)))
    ELSE notes

filteredNotes(notes, query) ==
    filterSearch(filterDeleted(notes, query.includeDeleted), query.search)

\* const { page = 1, limit = 10, ... } = req.query
DefaultPage == 1
DefaultLimit == 10

pageNum(query) ==
    parseInt(IF query.page = Undefined THEN Number(DefaultPage) ELSE query.page)

limitNum(query) ==
    parseInt(IF query.limit = Undefined THEN Number(DefaultLimit)
             ELSE query.limit)

\* startIndex without the "- 1"
startIndex_FromPage(query) == JsMul(pageNum(query), limitNum(query))

startIndex(query) == JsMul(JsSub(pageNum(query), Int_(1)), limitNum(query))

endIndex(query) == JsAdd(startIndex(query), limitNum(query))

paginatedNotes(filtered, query) ==
    Slice(filtered, startIndex(query), endIndex(query))

\* the body GET /notes answers with, given the notes read from the file
listResponse(notes, query) ==
    LET filtered == filteredNotes(notes, query)
    IN  Response(200, NoNote, paginatedNotes(filtered, query),
                 [page |-> pageNum(query),
                  limit |-> limitNum(query),
                  total |-> Len(filtered),
                  totalPages |-> CeilDiv(Len(filtered), limitNum(query))],
                 <<>>)

\* the body GET /notes/:id answers with, given the notes read from the file
getResponse(notes, id) ==
    LET i == findIndex(notes, id)
    IN  IF i = 0 THEN NotFound
        ELSE IF notes[i].deleted THEN NotFound
        ELSE Response(200, notes[i], <<>>, NoPagination, <<>>)

(***************************************************************************)
(* The handlers.  A slot of h holds one request from its arrival to its    *)
(* response:                                                               *)
(*   pc     "idle" (no request), "read" (fs.readFile pending), "init"      *)
(*          (readNotesFile caught ENOENT, writeNotesFile([]) pending) or   *)
(*          "write" (the handler's writeNotesFile(notes) pending)          *)
(*   op, id, title, content, query   the request                           *)
(*   note, notes, idx                the locals newNote, notes, noteIndex  *)
(*   res                             the response (in last only)           *)
(*   after                           the value of gone when it arrived     *)
(* last is the request answered most recently, with pc = "done".           *)
(***************************************************************************)
Handler(pc, op, id, title, content, query, note, notes, idx, res, after) ==
    [pc |-> pc, op |-> op, id |-> id, title |-> title, content |-> content,
     query |-> query, note |-> note, notes |-> notes, idx |-> idx,
     res |-> res, after |-> after]

Idle ==
    Handler("idle", "none", 0, Undefined, Undefined, NoQuery, NoNote, <<>>, 0,
            NoResponse, {})

InFlight(q) == h[q].pc # "idle"

Mutating(q) == h[q].op \in {"create", "update", "delete"}

\* the request r is answered with res
Answered(r, res) ==
    [r EXCEPT !.pc = "done", !.res = res, !.note = NoNote, !.notes = <<>>,
              !.idx = 0]

\* slot p sends its response
Respond(p, res) ==
    /\ h' = [h EXCEPT ![p] = Idle]
    /\ last' = Answered(h[p], res)
    /\ gone' = IF /\ h[p].op = "delete"
                  /\ res.status = 200
                  /\ \A q \in Procs \ {p} : ~(InFlight(q) /\ Mutating(q))
               THEN gone \cup {h[p].id}
               ELSE gone

\* slot p goes on to its next file operation
Await(p, pc, note, notes, idx) ==
    /\ h' = [h EXCEPT ![p] = [@ EXCEPT !.pc = pc, !.note = note,
                                       !.notes = notes, !.idx = idx]]
    /\ UNCHANGED <<last, gone>>

\* JSON.stringify(notes, null, 2): every note becomes an object of members,
\* a string a string literal, a boolean the literal true or false
JSONstringify(notes) ==
    [i \in DOMAIN notes |->
        [id |-> <<"string", notes[i].id>>,
         title |-> <<"string", notes[i].title>>,
         content |-> <<"string", notes[i].content>>,
         createdAt |-> <<"string", notes[i].createdAt>>,
         deleted |-> <<IF notes[i].deleted THEN "true" ELSE "false">>]]

\* the value JSON.parse makes of one member
JSONvalue(member) ==
    IF member[1] = "string" THEN member[2] ELSE member[1] = "true"

\* JSON.parse(data) of the text of an array of notes
JSONparse(data) ==
    [i \in DOMAIN data |->
        Note(JSONvalue(data[i].id), JSONvalue(data[i].title),
             JSONvalue(data[i].content), JSONvalue(data[i].createdAt),
             JSONvalue(data[i].deleted))]

\* the file once fs.writeFile(NOTES_FILE, data) has completed; notes is what
\* JSON.parse reads from it
FileOf(data) ==
    [exists |-> TRUE, truncated |-> FALSE, notes |-> JSONparse(data)]

\* the file while it does not exist
Missing == [exists |-> FALSE, truncated |-> FALSE, notes |-> <<>>]

\* the file after fs.writeFile has opened it, which empties it, and before
\* it has written the text: there is nothing for JSON.parse to read
Truncated == [exists |-> TRUE, truncated |-> TRUE, notes |-> <<>>]

\* writeNotesFile resolving without having written the file
writeNotesFile_NotWritten(notes) ==
    notesFile' = notesFile

\* writeNotesFile(notes), once fs.writeFile has completed
writeNotesFile(notes) ==
    notesFile' = FileOf(JSONstringify(notes))

\* app.get('/notes'), up to its await of readNotesFile
ListNotes(p, query) ==
    /\ ~InFlight(p)
    /\ h' = [h EXCEPT ![p] =
                Handler("read", "list", 0, Undefined, Undefined, query,
                        NoNote, <<>>, 0, NoResponse, gone)]
    /\ UNCHANGED <<notesFile, nextId, now, last, gone>>

\* app.get('/notes/:id'), up to its await of readNotesFile
GetNote(p, id) ==
    /\ ~InFlight(p)
    /\ h' = [h EXCEPT ![p] =
                Handler("read", "get", id, Undefined, Undefined, NoQuery,
                        NoNote, <<>>, 0, NoResponse, gone)]
    /\ UNCHANGED <<notesFile, nextId, now, last, gone>>

\* res.status(400).json({ error: 'Validation failed', details: ... })
ValidationFailed(errors) ==
    Response(400, NoNote, <<>>, NoPagination, errors)

\* newNote without the trims
newNote_Untrimmed(title, content, time) ==
    Note(nextId, title.s, content.s, time, FALSE)

\* the newNote of app.post('/notes'): uuidv4() is nextId, new Date() is time
newNote(title, content, time) ==
    Note(nextId, Trim(title.s), Trim(content.s), time, FALSE)

\* app.post('/notes'), up to its return of 400 or its await of
\* readNotesFile; time is what new Date() reads
CreateNote(p, title, content, time) ==
    /\ ~InFlight(p)
    /\ IF validateNote(title, content) # <<>>
       THEN /\ last' = Answered(
                        Handler("done", "create", 0, title, content, NoQuery,
                                NoNote, <<>>, 0, NoResponse, {}),
                        ValidationFailed(validateNote(title, content)))
            /\ UNCHANGED <<h, nextId, now>>
       ELSE /\ nextId <= MaxNotes
            /\ h' = [h EXCEPT ![p] =
                        Handler("read", "create", 0, title, content, NoQuery,
                                newNote(title, content, time), <<>>, 0,
                                NoResponse, {})]
            /\ nextId' = nextId + 1
            /\ now' = time
            /\ UNCHANGED <<last>>
    /\ UNCHANGED <<notesFile, gone>>

\* UpdateNote reading the notes without having validated the body
UpdateNote_NotValidated(p, id, title, content) ==
    /\ ~InFlight(p)
    /\ h' = [h EXCEPT ![p] =
                Handler("read", "update", id, title, content, NoQuery,
                        NoNote, <<>>, 0, NoResponse, {})]
    /\ UNCHANGED <<notesFile, nextId, now, last, gone>>

\* app.put('/notes/:id'), up to its return of 400 or its await of
\* readNotesFile
UpdateNote(p, id, title, content) ==
    /\ ~InFlight(p)
    /\ IF validateNote(title, content) # <<>>
       THEN /\ last' = Answered(
                        Handler("done", "update", id, title, content, NoQuery,
                                NoNote, <<>>, 0, NoResponse, {}),
                        ValidationFailed(validateNote(title, content)))
            /\ UNCHANGED <<h>>
       ELSE /\ h' = [h EXCEPT ![p] =
                        Handler("read", "update", id, title, content, NoQuery,
                                NoNote, <<>>, 0, NoResponse, {})]
            /\ UNCHANGED <<last>>
    /\ UNCHANGED <<notesFile, nextId, now, gone>>

\* app.delete('/notes/:id'), up to its await of readNotesFile
DeleteNote(p, id) ==
    /\ ~InFlight(p)
    /\ h' = [h EXCEPT ![p] =
                Handler("read", "delete", id, Undefined, Undefined, NoQuery,
                        NoNote, <<>>, 0, NoResponse, {})]
    /\ UNCHANGED <<notesFile, nextId, now, last, gone>>

\* updateNotFound without the test of notes[noteIndex].deleted
updateNotFound_IgnoresDeleted(notes, i) == i = 0

\* the two returns of 404 of app.put('/notes/:id'): no note of that id, or
\* a soft-deleted one
updateNotFound(notes, i) ==
    IF i = 0 THEN TRUE ELSE notes[i].deleted

\* deleteNotFound without the test of notes[noteIndex].deleted
deleteNotFound_IgnoresDeleted(notes, i) == i = 0

\* the two returns of 404 of app.delete('/notes/:id')
deleteNotFound(notes, i) ==
    IF i = 0 THEN TRUE ELSE notes[i].deleted

\* updatedNotes building the note anew, without the spread of notes[i]
updatedNotes_NoSpread(notes, i, title, content) ==
    [notes EXCEPT ![i] = Note(@.id, Trim(title.s), Trim(content.s), 0, FALSE)]

\* the notes array of app.put('/notes/:id') after its update of notes[i]
updatedNotes(notes, i, title, content) ==
    [notes EXCEPT ![i] = [@ EXCEPT !.title = Trim(title.s),
                                   !.content = Trim(content.s)]]

\* the notes array of app.delete('/notes/:id') after its soft delete
deletedNotes(notes, i) ==
    [notes EXCEPT ![i] = [@ EXCEPT !.deleted = TRUE]]

\* the handler of slot p from the return of readNotesFile, which returned
\* notes, to its response or to its await of writeNotesFile
Loaded(p, notes) ==
    LET r == h[p]
        i == findIndex(notes, r.id)
    IN  CASE r.op = "list" -> Respond(p, listResponse(notes, r.query))
          [] r.op = "get" -> Respond(p, getResponse(notes, r.id))
          [] r.op = "create" ->
                Await(p, "write", r.note, Append(notes, r.note), 0)
          [] r.op = "update" ->
                IF updateNotFound(notes, i) THEN Respond(p, NotFound)
                ELSE Await(p, "write", NoNote,
                           updatedNotes(notes, i, r.title, r.content), i)
          [] r.op = "delete" ->
                IF deleteNotFound(notes, i) THEN Respond(p, NotFound)
                ELSE Await(p, "write", NoNote, deletedNotes(notes, i), i)

\* readNotesFile: fs.readFile completes; the file is parsed, or ENOENT is
\* caught and writeNotesFile([]) is awaited; JSON.parse throws on a file
\* without its text, and the handler's catch answers 500
ReadFile(p) ==
    /\ h[p].pc = "read"
    /\ IF ~notesFile.exists
       THEN Await(p, "init", h[p].note, <<>>, 0)
       ELSE IF notesFile.truncated
       THEN Respond(p, InternalError)
       ELSE Loaded(p, notesFile.notes)
    /\ UNCHANGED <<notesFile, nextId, now>>

\* readNotesFile after ENOENT returning [] without writeNotesFile([])
InitFile_NotWritten(p) ==
    /\ h[p].pc = "init"
    /\ UNCHANGED notesFile
    /\ Loaded(p, <<>>)
    /\ UNCHANGED <<nextId, now>>

\* readNotesFile after ENOENT: writeNotesFile([]) completes and readNotesFile
\* returns []
InitFile(p) ==
    /\ h[p].pc = "init"
    /\ writeNotesFile(<<>>)
    /\ Loaded(p, <<>>)
    /\ UNCHANGED <<nextId, now>>

\* the response of a handler whose writeNotesFile(notes) has completed
written(r) ==
    CASE r.op = "create" -> Response(201, r.note, <<>>, NoPagination, <<>>)
      [] r.op = "update" ->
            Response(200, r.notes[r.idx], <<>>, NoPagination, <<>>)
      [] OTHER -> Deleted

\* the handler's own writeNotesFile(notes) completes and it responds
WriteFile(p) ==
    /\ h[p].pc = "write"
    /\ writeNotesFile(h[p].notes)
    /\ Respond(p, written(h[p]))
    /\ UNCHANGED <<nextId, now>>

\* fs.readFile rejects with an error other than ENOENT (EACCES, EIO, ...):
\* readNotesFile throws it again and the handler's catch answers 500
ReadFileFails(p) ==
    /\ h[p].pc = "read"
    /\ Respond(p, InternalError)
    /\ UNCHANGED <<notesFile, nextId, now>>

\* what a rejected fs.writeFile leaves of the file: the file as it was when
\* the open failed, the emptied file when the write failed after the open
LeftByFailedWrite == { notesFile, Truncated }

\* fs.writeFile rejects (EACCES, ENOSPC, EIO, ...), in readNotesFile after
\* ENOENT or in the handler; the handler's catch answers 500
WriteFileFails(p, left) ==
    /\ h[p].pc \in {"init", "write"}
    /\ left \in LeftByFailedWrite
    /\ notesFile' = left
    /\ Respond(p, InternalError)
    /\ UNCHANGED <<nextId, now>>

(***************************************************************************)
(* The server under concurrent requests.                                   *)
(***************************************************************************)
True == Str(<<"t", "r", "u", "e">>)

\* request bodies: two valid ones (one needs trimming, they differ in
\* case) and one with a blank title
Bodies ==
    { [title |-> Str(<<" ", "a">>), content |-> Str(<<"x", " ">>)],
      [title |-> Str(<<"B">>), content |-> Str(<<"y">>)],
      [title |-> Str(<<" ">>), content |-> Str(<<"x">>)] }

\* query strings: none, ?includeDeleted=true
Queries ==
    { NoQuery, Query(Undefined, Undefined, Undefined, True) }

\* the ids requests name: those uuidv4 hands out within the bound
Ids == 1..MaxNotes

\* what new Date() may read: the time of the last reading or a later one
Times == { t \in now..(now + 1) : t <= MaxTime }

\* the server has started; notes.json does not exist yet
Init ==
    /\ notesFile = Missing
    /\ h = [p \in Procs |-> Idle]
    /\ nextId = 1
    /\ now = 1
    /\ last = Idle
    /\ gone = {}

Next ==
    \/ \E p \in Procs, query \in Queries : ListNotes(p, query)
    \/ \E p \in Procs, id \in Ids : GetNote(p, id)
    \/ \E p \in Procs, body \in Bodies, time \in Times :
            CreateNote(p, body.title, body.content, time)
    \/ \E p \in Procs, id \in Ids, body \in Bodies :
            UpdateNote(p, id, body.title, body.content)
    \/ \E p \in Procs, id \in Ids : DeleteNote(p, id)
    \/ \E p \in Procs : ReadFile(p)
    \/ \E p \in Procs : InitFile(p)
    \/ \E p \in Procs : WriteFile(p)

Spec == Init /\ [][Next]_vars

(***************************************************************************)
(* The server under one request at a time, over more request bodies.       *)
(***************************************************************************)
\* a string of n characters "a"
Repeat(n) == [i \in 1..n |-> "a"]

\* title members of a request body: missing, a number, blank, to trim,
\* plain, and of one character more than MaxTitleLength
TitleInputs ==
    { Undefined, Number(5), Str(<<" ", "\t">>), Str(<<" ", "a">>),
      Str(<<"B">>), Str(Repeat(MaxTitleLength + 1)) }

\* content members of a request body: missing, a number, blank, to trim
ContentInputs ==
    { Undefined, Number(5), Str(<<"\n", " ">>), Str(<<"x", " ">>) }

\* request bodies: every title with a valid content, every content with a
\* valid title, and an empty body
SeqBodies ==
    { [title |-> t, content |-> Str(<<"y">>)] : t \in TitleInputs } \cup
    { [title |-> Str(<<"B">>), content |-> c] : c \in ContentInputs } \cup
    { [title |-> Undefined, content |-> Undefined] }

NextSeq ==
    \/ \E query \in Queries : ListNotes(1, query)
    \/ \E id \in Ids : GetNote(1, id)
    \/ \E body \in SeqBodies, time \in Times :
            CreateNote(1, body.title, body.content, time)
    \/ \E id \in Ids, body \in SeqBodies :
            UpdateNote(1, id, body.title, body.content)
    \/ \E id \in Ids : DeleteNote(1, id)
    \/ ReadFile(1)
    \/ InitFile(1)
    \/ WriteFile(1)

SpecSeq == Init /\ [][NextSeq]_vars

(***************************************************************************)
(* GET /notes over the collections and query strings of its pipeline: the  *)
(* server holds a collection and one request for the list has arrived.     *)
(***************************************************************************)
SampleTitles ==
    << <<"P", "r", "o", "j", "e", "c", "t", " ", "P", "l", "a", "n">>,
       <<"b">>,
       <<"P", "l", "a", "n", " ", "B">>,
       <<"x">> >>

SampleContents ==
    << <<"D", "e", "f", "i", "n", "e", " ", "M", "V", "P">>,
       <<"a", " ", "p", "l", "a", "n">>,
       <<"y">> >>

\* the i-th note created
SampleNote(i, deleted) ==
    Note(i, SampleTitles[((i - 1) % Len(SampleTitles)) + 1],
         SampleContents[((i - 1) % Len(SampleContents)) + 1], i, deleted)

\* which of the notes were soft-deleted
DeletedSets == { {}, {1}, {2, 3}, {1, 4, 7} }

ListFiles ==
    { Missing } \cup
    { FileOf(JSONstringify([i \in 1..n |-> SampleNote(i, i \in D)])) :
        n \in 0..MaxListLen, D \in DeletedSets }

PageInputs ==
    { Undefined, Str(<<"1">>), Str(<<"2">>), Str(<<"3">>), Str(<<"4">>),
      Str(<<"0">>), Str(<<"-", "1">>), Str(<<"a", "b", "c">>), Str(<<>>),
      Str(<<" ", "2">>), Str(<<"2", "x">>) }

LimitInputs ==
    { Undefined, Str(<<"3">>), Str(<<"1", "0">>), Str(<<"1">>), Str(<<"0">>),
      Str(<<"-", "3">>), Str(<<"a", "b", "c">>), Str(<<>>) }

SearchInputs ==
    { Undefined, Str(<<>>), Str(<<"p", "r", "o", "j", "e", "c", "t">>),
      Str(<<"P", "L", "A", "N">>), Str(<<"b">>), Str(<<"z">>) }

IncludeDeletedInputs ==
    { Undefined, True, Str(<<"f", "a", "l", "s", "e">>),
      Str(<<"T", "R", "U", "E">>) }

ListQueries ==
    [page : PageInputs, limit : LimitInputs, search : SearchInputs,
     includeDeleted : IncludeDeletedInputs]

InitList ==
    /\ notesFile \in ListFiles
    /\ \E query \in ListQueries :
          h = [p \in Procs |->
                  IF p = 1
                  THEN Handler("read", "list", 0, Undefined, Undefined, query,
                               NoNote, <<>>, 0, NoResponse, {})
                  ELSE Idle]
    /\ nextId = Len(notesFile.notes) + 1
    /\ now = Len(notesFile.notes) + 1
    /\ last = Idle
    /\ gone = {}

NextList ==
    \/ ReadFile(1)
    \/ InitFile(1)

SpecList == InitList /\ [][NextList]_vars

(***************************************************************************)
(* The server under one request at a time, with file operations that may   *)
(* fail.                                                                   *)
(***************************************************************************)
NextFail ==
    \/ \E query \in Queries : ListNotes(1, query)
    \/ \E id \in Ids : GetNote(1, id)
    \/ \E body \in Bodies, time \in Times :
            CreateNote(1, body.title, body.content, time)
    \/ \E id \in Ids, body \in Bodies :
            UpdateNote(1, id, body.title, body.content)
    \/ \E id \in Ids : DeleteNote(1, id)
    \/ ReadFile(1)
    \/ InitFile(1)
    \/ WriteFile(1)
    \/ ReadFileFails(1)
    \/ \E left \in LeftByFailedWrite : WriteFileFails(1, left)

SpecFail == Init /\ [][NextFail]_vars

(***************************************************************************)
(* Two requests among POST, PUT and DELETE that arrive before either is    *)
(* answered, on a store that earlier requests have left.                   *)
(***************************************************************************)
Racers == {1, 2}

\* the stores: missing, or the notes created so far, the first of them
\* soft-deleted or not
RaceFiles ==
    { Missing } \cup
    { FileOf(JSONstringify([i \in 1..n |-> SampleNote(i, i \in D)])) :
        n \in 0..(MaxNotes - 1), D \in {{}, {1}} }

InitRace ==
    /\ notesFile \in RaceFiles
    /\ h = [p \in Procs |-> Idle]
    /\ nextId = Len(notesFile.notes) + 1
    /\ now = IF notesFile.notes = <<>> THEN 1 ELSE Len(notesFile.notes)
    /\ last = Idle
    /\ gone = {}

NextRace ==
    \/ /\ last = Idle
       /\ \E p \in Racers, body \in Bodies, time \in Times :
            CreateNote(p, body.title, body.content, time)
    \/ /\ last = Idle
       /\ \E p \in Racers, id \in Ids, body \in Bodies :
            UpdateNote(p, id, body.title, body.content)
    \/ /\ last = Idle
       /\ \E p \in Racers, id \in Ids : DeleteNote(p, id)
    \/ \E p \in Racers : ReadFile(p)
    \/ \E p \in Racers : InitFile(p)
    \/ \E p \in Racers : WriteFile(p)

SpecRace == InitRace /\ [][NextRace]_vars

(***************************************************************************)
(* One POST or PUT over the titles and contents validateNote tells apart.  *)
(* The store holds one note, so that a PUT that is accepted finds it.      *)
(***************************************************************************)
\* a string of n spaces
Spaces(n) == [i \in 1..n |-> " "]

\* titles: missing, null, 0, a number, an object, empty, blank, plain, to
\* trim, and of MaxTitleLength characters or one more, with and without
\* white space around them
ValidateTitles ==
    { Undefined, Null, Number(0), Number(5), Object,
      Str(<<>>), Str(<<" ">>), Str(<<" ", "\t", "\n">>),
      Str(<<"a">>), Str(<<" ", "a", " ">>),
      Str(Repeat(MaxTitleLength)),
      Str(Repeat(MaxTitleLength + 1)),
      Str(Repeat(MaxTitleLength - 1) \o <<" ">>),
      Str(Repeat(MaxTitleLength) \o <<" ">>),
      Str(<<" ">> \o Repeat(MaxTitleLength)),
      Str(Spaces(MaxTitleLength) \o <<"a">>),
      Str(<<" ">> \o Repeat(MaxTitleLength + 1) \o <<"\n">>),
      Str(Spaces(MaxTitleLength + 1)) }

\* contents: missing, null, 0, a number, an object, empty, blank, plain, to
\* trim, and longer than any title
ValidateContents ==
    { Undefined, Null, Number(0), Number(5), Object,
      Str(<<>>), Str(<<" ">>), Str(<<"\n", " ">>),
      Str(<<"x">>), Str(<<" ", "x", "\t">>),
      Str(Repeat(MaxTitleLength + 1)) }

ValidateBodies == [title : ValidateTitles, content : ValidateContents]

InitValidate ==
    /\ notesFile = FileOf(JSONstringify(<<SampleNote(1, FALSE)>>))
    /\ h = [p \in Procs |-> Idle]
    /\ nextId = 2
    /\ now = 1
    /\ last = Idle
    /\ gone = {}

NextValidate ==
    \/ /\ last = Idle
       /\ \E body \in ValidateBodies, time \in Times :
            CreateNote(1, body.title, body.content, time)
    \/ /\ last = Idle
       /\ \E id \in Ids, body \in ValidateBodies :
            UpdateNote(1, id, body.title, body.content)
    \/ ReadFile(1)
    \/ WriteFile(1)

SpecValidate == InitValidate /\ [][NextValidate]_vars

(***************************************************************************)
(* Properties.                                                             *)
(***************************************************************************)
\* the notes persisted in notes.json (none while the file is missing)
Persisted == notesFile.notes

\* whether the page of a list response covers the whole filtered sequence
CoversAll(res) ==
    /\ res.pagination.page = Int_(1)
    /\ res.pagination.limit.k = "int"
    /\ res.pagination.total <= res.pagination.limit.v

(***************************************************************************)
(* C1.  Soft-delete invisibility: once DELETE /notes/:id has answered with *)
(* success while no other POST, PUT or DELETE was in flight, every GET     *)
(* /notes/:id that arrives later answers 404, every later GET /notes       *)
(* without includeDeleted=true omits the note, and every later GET /notes  *)
(* with includeDeleted=true whose page covers the collection holds the     *)
(* note with deleted = true.                                               *)
(***************************************************************************)
C1_SoftDeleteInvisible ==
    \A id \in last.after :
        /\ (last.op = "get" /\ last.id = id) => last.res.status = 404
        /\ (last.op = "list" /\ last.query.includeDeleted # True) =>
                \A i \in DOMAIN last.res.notes : last.res.notes[i].id # id
        /\ (/\ last.op = "list"
            /\ last.query.includeDeleted = True
            /\ CoversAll(last.res)) =>
                \E i \in DOMAIN last.res.notes :
                    /\ last.res.notes[i].id = id
                    /\ last.res.notes[i].deleted

(***************************************************************************)
(* C2.  The deleted flag never reverts: under any interleaving of the      *)
(* handlers, a note persisted with deleted = true is not persisted with    *)
(* deleted = false by any later write of the file.                         *)
(***************************************************************************)
C2_DeletedNeverReverts ==
    [][\A i \in DOMAIN notesFile.notes :
          notesFile.notes[i].deleted =>
              \A j \in DOMAIN notesFile'.notes :
                  notesFile'.notes[j].id = notesFile.notes[i].id =>
                      notesFile'.notes[j].deleted]_vars

\* slot 1 sends the response of a request of the kind op in this step
Answers(op) == h[1].op = op /\ h'[1].pc = "idle"

\* t is raw without the white space at its two ends
IsTrimOf(t, raw) ==
    /\ t # <<>>
    /\ t[1] \notin WhiteSpace
    /\ t[Len(t)] \notin WhiteSpace
    /\ \E a \in 0..(Len(raw) - Len(t)) :
          /\ SubSeq(raw, a + 1, a + Len(t)) = t
          /\ \A k \in (1..a) \cup ((a + Len(t) + 1)..Len(raw)) :
                raw[k] \in WhiteSpace

\* a body member that is missing, no string, or a string of white space only
Blank(v) ==
    \/ v.t # "string"
    \/ \A k \in DOMAIN v.s : v.s[k] \in WhiteSpace

\* a title with more than MaxTitleLength characters between its first and
\* its last character that is no white space
TooLong(v) ==
    /\ v.t = "string"
    /\ \E a \in 1..(Len(v.s) - MaxTitleLength) :
          /\ v.s[a] \notin WhiteSpace
          /\ \E b \in (a + MaxTitleLength)..Len(v.s) :
                v.s[b] \notin WhiteSpace

InvalidBody(title, content) ==
    Blank(title) \/ TooLong(title) \/ Blank(content)

(***************************************************************************)
(* C3.  Idempotent-delete rejection: with one request at a time, DELETE of *)
(* a note that is persisted and not soft-deleted answers with success and  *)
(* persists deleted = true; a DELETE of the same id that directly follows  *)
(* a successful one answers 404 and leaves notes.json as it was.           *)
(***************************************************************************)
C3_DeleteTwice ==
    [][Answers("delete") =>
          /\ (\E i \in DOMAIN Persisted :
                 Persisted[i].id = h[1].id /\ ~Persisted[i].deleted) =>
                /\ last'.res.status = 200
                /\ \E i \in DOMAIN Persisted' :
                      Persisted'[i].id = h[1].id /\ Persisted'[i].deleted
          /\ (/\ last.op = "delete"
              /\ last.res.status = 200
              /\ last.id = h[1].id) =>
                /\ last'.res.status = 404
                /\ notesFile' = notesFile]_vars

\* the second DELETE of a note has been answered with 404
C3_Witness ==
    /\ last.op = "delete"
    /\ last.res.status = 404
    /\ last.id \in gone
    /\ \E i \in DOMAIN Persisted :
          Persisted[i].id = last.id /\ Persisted[i].deleted

(***************************************************************************)
(* C4.  Create validity: POST /notes with a title that is missing, no      *)
(* string, blank or too long, or with a content that is missing, no string *)
(* or blank, answers 400 at once: no such request ever awaits a read or a  *)
(* write of notes.json, and the step that answers it leaves notes.json as  *)
(* it was, missing if it was missing.                                      *)
(***************************************************************************)
C4_CreateValidity ==
    [][/\ \A p \in Procs :
            h'[p].op = "create" => ~InvalidBody(h'[p].title, h'[p].content)
       /\ (last'.op = "create" /\ InvalidBody(last'.title, last'.content)) =>
            /\ last'.res.status = 400
            /\ last'.res.details # <<>>
       /\ (last' # last /\ last'.op = "create" /\ last'.res.status = 400) =>
            notesFile' = notesFile]_vars

\* an invalid POST has been answered and notes.json still does not exist
C4_Witness ==
    /\ last.op = "create"
    /\ last.res.status = 400
    /\ InvalidBody(last.title, last.content)
    /\ ~notesFile.exists

(***************************************************************************)
(* C5.  Create/get round trip: with one request at a time, a successful    *)
(* POST /notes appends exactly one note to the end of the persisted        *)
(* collection, with a new id, the trimmed title and content, the time of   *)
(* its creation and deleted = false, and answers with it; a GET /notes/:id *)
(* of that id that directly follows answers with the same note.            *)
(***************************************************************************)
C5_RoundTrip ==
    [][/\ Answers("create") =>
            /\ last'.res.status = 201
            /\ Persisted' = Append(Persisted, last'.res.note)
            /\ \A i \in DOMAIN Persisted :
                  Persisted[i].id # last'.res.note.id
            /\ IsTrimOf(last'.res.note.title, h[1].title.s)
            /\ IsTrimOf(last'.res.note.content, h[1].content.s)
            /\ last'.res.note.createdAt = now
            /\ last'.res.note.createdAt > 0
            /\ ~last'.res.note.deleted
       /\ (/\ Answers("get")
           /\ last.op = "create"
           /\ last.res.status = 201
           /\ h[1].id = last.res.note.id) =>
            /\ last'.res.status = 200
            /\ last'.res.note = last.res.note
            /\ IsTrimOf(last'.res.note.title, last.title.s)
            /\ IsTrimOf(last'.res.note.content, last.content.s)]_vars

\* a GET has answered with the last note created, whose title was trimmed
C5_Witness ==
    /\ last.op = "get"
    /\ last.res.status = 200
    /\ last.res.note.title = <<"a">>
    /\ last.res.note.createdAt = MaxTime
    /\ Persisted[Len(Persisted)] = last.res.note

(***************************************************************************)
(* C10.  Update frame: with one request at a time, a successful PUT        *)
(* /notes/:id changes the title and the content of the note of that id to  *)
(* the trimmed inputs and nothing else: the note keeps its id, createdAt,  *)
(* deleted flag and position, the collection keeps its length and every    *)
(* other note, and the note answered is the note persisted.                *)
(***************************************************************************)
C10_UpdateFrame ==
    [][(Answers("update") /\ last'.res.status = 200) =>
          \E i \in DOMAIN Persisted :
              /\ Persisted[i].id = h[1].id
              /\ Len(Persisted') = Len(Persisted)
              /\ \A j \in DOMAIN Persisted :
                    j # i => Persisted'[j] = Persisted[j]
              /\ Persisted'[i].id = Persisted[i].id
              /\ Persisted'[i].createdAt = Persisted[i].createdAt
              /\ Persisted'[i].deleted = Persisted[i].deleted
              /\ IsTrimOf(Persisted'[i].title, h[1].title.s)
              /\ IsTrimOf(Persisted'[i].content, h[1].content.s)
              /\ last'.res.note = Persisted'[i]]_vars

\* a PUT has changed the first of two notes, created earlier, to a trimmed
\* title
C10_Witness ==
    /\ last.op = "update"
    /\ last.res.status = 200
    /\ Len(Persisted) = 2
    /\ last.res.note = Persisted[1]
    /\ last.res.note.title # last.title.s
    /\ last.res.note.createdAt < now

\* the largest page and limit the properties of the pagination range over
MaxParam == 10

Min(a, b) == IF a < b THEN a ELSE b

Max(a, b) == IF a > b THEN a ELSE b

\* the decimal numeral of n >= 0
RECURSIVE Decimal(_)
Decimal(n) ==
    IF n < 10 THEN <<DigitChars[n + 1]>>
    ELSE Decimal(n \div 10) \o <<DigitChars[(n % 10) + 1]>>

\* the decimal numeral of an integer
SignedDecimal(n) == IF n < 0 THEN <<"-">> \o Decimal(-n) ELSE Decimal(n)

\* the least n with n * l >= total
Ceiling(total, l) ==
    CHOOSE n \in 0..total : n * l >= total /\ (n = 0 \/ (n - 1) * l < total)

\* the collection GET /notes has read: notes.json as the request left it
\* (GET /notes changes it only from missing to empty)
Listed == filteredNotes(Persisted, last.query)

(***************************************************************************)
(* C6.  Pagination arithmetic: for positive integers page and limit, GET   *)
(* /notes answers with the items of the filtered sequence F from index     *)
(* (page-1)*limit up to but excluding (page-1)*limit+limit, that is        *)
(* min(limit, max(0, total-(page-1)*limit)) of them, with total = |F| and  *)
(* totalPages = ceil(total/limit), 0 when total = 0.                       *)
(***************************************************************************)
C6_Pagination ==
    last.op = "list" =>
        \A p, l \in 1..MaxParam :
            (/\ last.query.page = Str(Decimal(p))
             /\ last.query.limit = Str(Decimal(l))) =>
                LET total == Len(Listed)
                    first == (p - 1) * l
                    count == Min(l, Max(0, total - first))
                IN  /\ last.res.status = 200
                    /\ last.res.notes = [k \in 1..count |-> Listed[first + k]]
                    /\ last.res.pagination.page = Int_(p)
                    /\ last.res.pagination.limit = Int_(l)
                    /\ last.res.pagination.total = total
                    /\ last.res.pagination.totalPages =
                            Int_(Ceiling(total, l))
                    /\ total = 0 => last.res.pagination.totalPages = Int_(0)

\* 7 notes, limit 3: page 3 holds the one last note and totalPages is 3
C6_Witness ==
    /\ last.op = "list"
    /\ last.query.page = Str(<<"3">>)
    /\ last.query.limit = Str(<<"3">>)
    /\ last.res.pagination.total = 7
    /\ last.res.pagination.totalPages = Int_(3)
    /\ Len(last.res.notes) = 1
    /\ last.res.notes[1] = Persisted[7]

(***************************************************************************)
(* C7.  Out-of-range pages: for every integer page outside 1..totalPages,  *)
(* below 1 as well as above totalPages, and every positive limit, GET      *)
(* /notes answers without an error, with no items and with total and       *)
(* totalPages computed from the filtered sequence.                         *)
(***************************************************************************)
C7_OutOfRangePages ==
    last.op = "list" =>
        \A p \in (-MaxParam)..MaxParam, l \in 1..MaxParam :
            (/\ last.query.page = Str(SignedDecimal(p))
             /\ last.query.limit = Str(Decimal(l))
             /\ (p < 1 \/ p > Ceiling(Len(Listed), l))) =>
                /\ last.res.status = 200
                /\ last.res.notes = <<>>
                /\ last.res.pagination.total = Len(Listed)
                /\ last.res.pagination.totalPages =
                        Int_(Ceiling(Len(Listed), l))

\* a query value that is absent, or a string without any digit
AbsentOrNonNumeric(v) ==
    \/ v = Undefined
    \/ v.t = "string" /\ \A k \in DOMAIN v.s : ~IsDigit(v.s[k], 10)

(***************************************************************************)
(* C8.  Page/limit defaults: whenever the page or the limit of the query   *)
(* is absent or non-numeric, GET /notes behaves as for page=1 or limit=10: *)
(* the page and the limit it reports are these integers, never NaN.        *)
(***************************************************************************)
C8_Defaults ==
    last.op = "list" =>
        /\ AbsentOrNonNumeric(last.query.page) =>
                last.res.pagination.page = Int_(DefaultPage)
        /\ AbsentOrNonNumeric(last.query.limit) =>
                last.res.pagination.limit = Int_(DefaultLimit)

\* c and d are the same letter, in either case, or the same character
SameLetter(c, d) ==
    \/ c = d
    \/ \E k \in DOMAIN UpperCase :
          {c, d} = {UpperCase[k], LowerCase[k]}

\* term occurs in text at some offset, whatever the case of the letters
Contains(text, term) ==
    \E a \in 0..(Len(text) - Len(term)) :
        \A k \in DOMAIN term : SameLetter(text[a + k], term[k])

\* whether GET /notes with this query is to count the note
Selected(note, query) ==
    /\ query.includeDeleted = True \/ ~note.deleted
    /\ \/ query.search = Undefined
       \/ query.search.s = <<>>
       \/ Contains(note.title, query.search.s)
       \/ Contains(note.content, query.search.s)

\* the notes of a collection that are selected, in their stored order
RECURSIVE Restricted(_, _)
Restricted(notes, query) ==
    IF notes = <<>> THEN <<>>
    ELSE (IF Selected(Head(notes), query) THEN <<Head(notes)>> ELSE <<>>)
            \o Restricted(Tail(notes), query)

(***************************************************************************)
(* C9.  List filter pipeline: what GET /notes counts as total and cuts its *)
(* page from is the collection read, in its stored order, restricted to    *)
(* the notes that are not soft-deleted (unless includeDeleted is "true")   *)
(* and, when a search term is given, whose title or content contains the   *)
(* term, whatever the case of the letters.                                 *)
(***************************************************************************)
C9_FilterPipeline ==
    last.op = "list" =>
        LET R == Restricted(Persisted, last.query)
        IN  /\ last.res.pagination.total = Len(R)
            /\ \E a \in 0..Len(R) :
                  /\ a + Len(last.res.notes) <= Len(R)
                  /\ last.res.notes = SubSeq(R, a + 1, a + Len(last.res.notes))
            /\ CoversAll(last.res) => last.res.notes = R

\* search=PLAN without includeDeleted: "Project Plan" is found by its title,
\* a note by its content "a plan", and a soft-deleted "Plan B" is left out
C9_Witness ==
    /\ last.op = "list"
    /\ last.query.search = Str(<<"P", "L", "A", "N">>)
    /\ last.query.includeDeleted = Undefined
    /\ Len(Persisted) >= 3
    /\ Persisted[3].deleted
    /\ CoversAll(last.res)
    /\ Len(last.res.notes) >= 2
    /\ last.res.notes[1] = Persisted[1]
    /\ last.res.notes[1].title = SampleTitles[1]
    /\ last.res.notes[2].content = SampleContents[2]
    /\ \A k \in DOMAIN last.res.notes : last.res.notes[k].id # 3

\* the ids of a sequence of notes, in its order
IdsOf(notes) == [i \in DOMAIN notes |-> notes[i].id]

\* s is a prefix of t
IsPrefix(s, t) == Len(s) <= Len(t) /\ SubSeq(t, 1, Len(s)) = s

(***************************************************************************)
(* C11.  Append-only ordered collection: under any interleaving of the     *)
(* handlers, the sequence of the ids of the notes persisted after a step   *)
(* has the sequence before the step as a prefix: no note is removed, no    *)
(* two notes change places, new notes come at the end.                     *)
(***************************************************************************)
C11_AppendOnly ==
    [][IsPrefix(IdsOf(Persisted), IdsOf(Persisted'))]_vars

\* the number of characters of s from its first to its last character that
\* is no white space
TrimmedLength(s) ==
    LET Inner == { k \in DOMAIN s : s[k] \notin WhiteSpace }
    IN  IF Inner = {} THEN 0
        ELSE (CHOOSE b \in Inner : \A k \in Inner : k <= b)
             - (CHOOSE a \in Inner : \A k \in Inner : a <= k) + 1

\* the members of a list of violations
Violations(res) == { res.details[k] : k \in DOMAIN res.details }

\* the request answered last was a POST or a PUT
ValidatedLast == last.op \in {"create", "update"}

(***************************************************************************)
(* C12.  The title-length rule uses the trimmed length: a POST or PUT is   *)
(* told "title too long" exactly when its title is a string of more than   *)
(* 100 characters after trimming, and one whose title has 1 to 100         *)
(* characters after trimming (and whose content is valid) is not answered  *)
(* with a validation failure, whatever white space surrounds the title.    *)
(***************************************************************************)
C12_TrimmedTitleLength ==
    ValidatedLast =>
        /\ TitleTooLong \in Violations(last.res) <=>
                (last.title.t = "string"
                    /\ TrimmedLength(last.title.s) > MaxTitleLength)
        /\ (/\ last.title.t = "string"
            /\ TrimmedLength(last.title.s) \in 1..MaxTitleLength
            /\ ~Blank(last.content)) => last.res.status # 400

\* s is not empty and has no white space at either end
Trimmed(s) ==
    /\ s # <<>>
    /\ s[1] \notin WhiteSpace
    /\ s[Len(s)] \notin WhiteSpace

(***************************************************************************)
(* C13.  Stored-field invariant: starting from a missing store, every note *)
(* persisted by POST /notes and PUT /notes/:id has a title that is         *)
(* trimmed, not empty and of at most 100 characters, and a content that is *)
(* trimmed and not empty.                                                  *)
(***************************************************************************)
C13_StoredFields ==
    \A i \in DOMAIN Persisted :
        /\ Trimmed(Persisted[i].title)
        /\ Len(Persisted[i].title) <= MaxTitleLength
        /\ Trimmed(Persisted[i].content)

\* two notes are persisted: the first was created with a content that had
\* white space at its end, and a PUT has given the second a title that had
\* white space before it
C13_Witness ==
    /\ last.op = "update"
    /\ last.res.status = 200
    /\ Len(Persisted) = 2
    /\ Persisted[1].content = <<"x">>
    /\ Persisted[2] = last.res.note
    /\ ~Trimmed(last.title.s)

\* the request r was a POST, PUT or DELETE and was answered with success
Succeeded(r) ==
    /\ r.op \in {"create", "update", "delete"}
    /\ r.res.status \in {200, 201}

\* the sequence notes shows the change of the request r, answered with
\* success: the note created or edited as it was answered, or the note of
\* that id soft-deleted
Reflects(notes, r) ==
    IF r.op = "delete"
    THEN \E i \in DOMAIN notes : notes[i].id = r.id /\ notes[i].deleted
    ELSE \E i \in DOMAIN notes : notes[i] = r.res.note

(***************************************************************************)
(* C14.  The lost-update race is present: the save of a POST, PUT or       *)
(* DELETE (B) answers with success and persists the collection B loaded    *)
(* with B's change, whatever was saved since B loaded; when another such   *)
(* request (A) was answered with success in between and its change is not  *)
(* in what B loaded, the collection persisted after B's save shows B's     *)
(* change and no longer A's.                                               *)
(***************************************************************************)
C14_LostUpdate ==
    [][\A p \in Procs :
          (h[p].pc = "write" /\ h'[p].pc = "idle") =>
              /\ Succeeded(last')
              /\ Persisted' = h[p].notes
              /\ Reflects(Persisted', last')
              /\ (Succeeded(last) /\ ~Reflects(h[p].notes, last)) =>
                    ~Reflects(Persisted', last)]_vars

\* two POSTs arrived on an empty store before either was answered, both
\* have been answered (POST answers a valid body with 201 only), and only
\* the note of the one answered last is persisted
C14_Witness ==
    /\ \A p \in Procs : ~InFlight(p)
    /\ nextId = 3
    /\ last.op = "create"
    /\ last.res.status = 201
    /\ Persisted = <<last.res.note>>

(***************************************************************************)
(* C15.  Validation takes precedence over existence in PUT /notes/:id:     *)
(* whether the id is absent, soft-deleted or live, a PUT with an invalid   *)
(* title or content answers 400, never 404, without awaiting a read or a   *)
(* write of notes.json and leaving it as it was; a PUT answers 404 only    *)
(* when its body is valid and no note of the id is persisted or the note   *)
(* is soft-deleted.                                                        *)
(***************************************************************************)
C15_ValidationFirst ==
    [][/\ \A p \in Procs :
            h'[p].op = "update" => ~InvalidBody(h'[p].title, h'[p].content)
       /\ (last'.op = "update" /\ InvalidBody(last'.title, last'.content)) =>
            /\ last'.res.status = 400
            /\ last'.res.details # <<>>
       /\ (last' # last /\ last'.op = "update" /\ last'.res.status = 400) =>
            notesFile' = notesFile
       /\ (Answers("update") /\ last'.res.status = 404) =>
            /\ ~InvalidBody(h[1].title, h[1].content)
            /\ \A i \in DOMAIN Persisted :
                  Persisted[i].id = h[1].id => Persisted[i].deleted]_vars

\* a PUT with an invalid body on a soft-deleted note has been answered 400
C15_Witness ==
    /\ last.op = "update"
    /\ last.res.status = 400
    /\ InvalidBody(last.title, last.content)
    /\ last.id \in gone
    /\ \E i \in DOMAIN Persisted :
          Persisted[i].id = last.id /\ Persisted[i].deleted

\* the handler of slot p is a PUT whose readNotesFile returns in this step,
\* from a file in which the note of its id is soft-deleted
LoadsDeleted(p) ==
    /\ h[p].op = "update"
    /\ h[p].pc = "read"
    /\ h'[p].pc # "read"
    /\ notesFile.exists
    /\ \E i \in DOMAIN Persisted :
          Persisted[i].id = h[p].id /\ Persisted[i].deleted

(***************************************************************************)
(* C16.  Deleted notes are immutable to update: a PUT /notes/:id with a    *)
(* valid body that loads a collection in which the note is soft-deleted    *)
(* answers 404 in the step of its load, never awaits a save, and leaves    *)
(* notes.json, with the note's title, content and other fields, as it was. *)
(***************************************************************************)
C16_DeletedImmutable ==
    [][\A p \in Procs :
          LoadsDeleted(p) =>
              /\ h'[p].pc = "idle"
              /\ last'.op = "update"
              /\ last'.id = h[p].id
              /\ last'.res = NotFound
              /\ notesFile' = notesFile]_vars

\* a PUT with a valid body has been answered 404 and the soft-deleted note
\* of its id still has the title and content it was created with
C16_Witness ==
    /\ last.op = "update"
    /\ last.res.status = 404
    /\ ~InvalidBody(last.title, last.content)
    /\ \E i \in DOMAIN Persisted :
          /\ Persisted[i].id = last.id
          /\ Persisted[i].deleted
          /\ Persisted[i] = SampleNote(i, TRUE)

\* what shows in this step that the readNotesFile of slot 1 has returned
\* notes: a POST goes on to save notes with its note appended, and a GET
\* /notes?includeDeleted=true answers with all of notes (the default page
\* holds them)
Returned(notes) ==
    /\ h[1].op = "create" => h'[1].notes = Append(notes, h[1].note)
    /\ (h[1].op = "list" /\ h[1].query.includeDeleted = True) =>
            /\ last'.res.status = 200
            /\ last'.res.notes = notes
            /\ last'.res.pagination.total = Len(notes)
    /\ h[1].op \in {"get", "update", "delete"} =>
            (h'[1].pc = "idle" /\ last'.res.status = 404) <=>
                \A i \in DOMAIN notes :
                    notes[i].id = h[1].id => notes[i].deleted

(***************************************************************************)
(* C17.  Store first-run initialisation, with one request at a time:       *)
(* readNotesFile on a missing file writes the empty collection, after      *)
(* which the file exists, and returns the empty sequence; on a file that   *)
(* exists it returns the collection persisted and writes nothing; that     *)
(* collection is the one passed to the writeNotesFile that completed last, *)
(* since a completed writeNotesFile(notes) persists exactly notes and no   *)
(* other step changes the file.                                            *)
(***************************************************************************)
C17_FirstRunLoad ==
    [][/\ (h[1].pc = "read" /\ ~notesFile.exists) =>
            (h'[1].pc = "init" /\ notesFile' = notesFile)
       /\ (h[1].pc = "init" /\ h'[1].pc # "init") =>
            /\ notesFile'.exists
            /\ Persisted' = <<>>
            /\ Returned(<<>>)
       /\ (h[1].pc = "read" /\ notesFile.exists /\ h'[1].pc # "read") =>
            /\ notesFile' = notesFile
            /\ Returned(Persisted)
       /\ (h[1].pc = "write" /\ h'[1].pc # "write") =>
            /\ notesFile'.exists
            /\ Persisted' = h[1].notes
       /\ h[1].pc \notin {"init", "write"} => notesFile' = notesFile]_vars

\* no note was ever created, the file exists as the empty collection, and
\* a GET /notes?includeDeleted=true has answered with no notes
C17_Witness ==
    /\ nextId = 1
    /\ notesFile.exists
    /\ Persisted = <<>>
    /\ last.op = "list"
    /\ last.query.includeDeleted = True
    /\ last.res.notes = <<>>
    /\ last.res.pagination.total = 0

\* a file operation of the handler of slot p fails in this step: fs.readFile
\* rejects, JSON.parse throws, or fs.writeFile rejects
StorageFails(p) ==
    \/ ReadFileFails(p)
    \/ h[p].pc = "read" /\ notesFile.truncated /\ ReadFile(p)
    \/ \E left \in LeftByFailedWrite : WriteFileFails(p, left)

\* the collection a file holds, and whether it can be read at all
CollectionOf(file) == <<file.truncated, file.notes>>

(***************************************************************************)
(* C18.  Storage failure is never reported as success: when the load or    *)
(* the save of a POST, PUT or DELETE fails, the request is answered with   *)
(* the internal error (500, without a note, a list of violations or the    *)
(* 404), and the collection persisted is the one persisted before.         *)
(***************************************************************************)
C18_StorageFailure ==
    [][\A p \in Procs :
          (Mutating(p) /\ StorageFails(p)) =>
              /\ last'.res.status = 500
              /\ last'.res.note = NoNote
              /\ last'.res.details = <<>>
              /\ CollectionOf(notesFile') = CollectionOf(notesFile)]_vars

(***************************************************************************)
(* C19.  Validator completeness and totality: for a title and a content of *)
(* any type, the list of violations holds a title violation exactly when   *)
(* the title is missing, no string, blank or longer than 100 characters    *)
(* after trimming, and the content violation exactly when the content is   *)
(* missing, no string or blank, both when both are broken; the list is     *)
(* empty, and the request goes on, exactly when both are valid.            *)
(***************************************************************************)
C19_ValidatorComplete ==
    /\ \A p \in Procs :
          (InFlight(p) /\ h[p].op \in {"create", "update"}) =>
              ~InvalidBody(h[p].title, h[p].content)
    /\ ValidatedLast =>
          /\ TitleRequired \in Violations(last.res) <=> Blank(last.title)
          /\ TitleTooLong \in Violations(last.res) <=>
                (~Blank(last.title) /\ TooLong(last.title))
          /\ ContentRequired \in Violations(last.res) <=> Blank(last.content)
          /\ last.res.status = 400 <=>
                InvalidBody(last.title, last.content)
          /\ last.res.status = 400 <=> last.res.details # <<>>

(***************************************************************************)
(* C20.  Reads do not destroy data: under any interleaving, no step of a   *)
(* handler of GET /notes or GET /notes/:id changes the collection          *)
(* persisted; the write of the empty collection that readNotesFile makes   *)
(* after it found the file missing does not replace notes that a POST has  *)
(* saved in the meantime.                                                  *)
(***************************************************************************)
C20_ReadsKeepData ==
    [][\A p \in Procs :
          (h[p].op \in {"list", "get"} /\ h'[p] # h[p]) =>
              Persisted' = Persisted]_vars

=============================================================================
